---- MODULE Spec2Model ----
(***************************************************************************)
(* Coverage-improvement pipeline of .github/scripts:                       *)
(*   analyze_coverage.py  (Coverage Analyzer)                              *)
(*   generate_tests.py    (Test Generator)                                 *)
(*   validate_tests.py    (Test Validator, retry / rollback)               *)
(*   generate_report.py   (Report Generator)                               *)
(*                                                                         *)
(* File names are sequences of one-character strings so that the suffix    *)
(* and substring tests of the filter are computed, not assumed.  Coverage  *)
(* percentages are the floats the interpreter computes, with their         *)
(* rounding, and are compared and summed in the same order as the code     *)
(* does.                                                                   *)
(***************************************************************************)
EXTENDS Integers, Sequences, FiniteSets, TLC

VARIABLES
    coverage_data,   \* files array the coverage oracle returns to the Analyzer
    apc,             \* Analyzer process: "idle" | "exited"
    aexit,           \* Analyzer exit code (-1 while not exited)
    analysisFile,    \* /tmp/coverage_analysis.json
    overallFile,     \* /tmp/overall_coverage.json
    gpc,             \* Generator process: "idle" | "exited"
    gexit,           \* Generator exit code (-1 while not exited)
    candFile,        \* /tmp/updated_file.rs
    apiCalls,        \* requests the Generator has sent to the model service
    after_data,      \* files array the coverage oracle returns to the Report stage
    rpc,             \* Report process: "idle" | "exited"
    rexit,           \* Report exit code (-1 while not exited)
    reportFile,      \* /tmp/coverage_report.md
    statsFile,       \* /tmp/coverage_stats.json
    measured,        \* run_coverage_after(): "no" | "failed" | "ok"
    warned,          \* the Report stage printed its fallback warning
    vpc,             \* Validator process position
    vexit,           \* Validator exit code (-1 while not exited)
    attempt,         \* loop variable of main(), 0 before the loop
    success,         \* the function attribute validate_tests.success
    ret,             \* value validate_tests() is returning / has returned
    outcome,         \* exit path taken inside the try block of validate_tests()
    results,         \* return values of the validate_tests() calls made so far
    workFile,        \* content of original_file_path in the working tree
    backupFile,      \* content of original_file_path + ".backup"
    metadata,        \* the dict main() of the Validator holds in memory
    metaFile,        \* /tmp/test_generation_metadata.json
    oracleLog,       \* the cargo invocations of the Validator, in order
    uncaught,        \* exception that left main() of the Validator, or "none"
    response,        \* message content the model service returned
    generated_content, \* generate_tests.py: the response after code extraction
    original_content,  \* generate_tests.py: text of the target file
    updated_content,   \* generate_tests.py: result of integrate_tests_into_file
    tpc              \* text functions: "start" | "extracted" | "integrated"

vars == <<coverage_data, apc, aexit, analysisFile, overallFile, gpc, gexit,
          candFile, apiCalls, after_data, rpc, rexit, reportFile, statsFile,
          measured, warned, vpc, vexit, attempt, success, ret,
          outcome, results, workFile, backupFile, metadata, metaFile, oracleLog,
          uncaught, response, generated_content, original_content,
          updated_content, tpc>>

covVars == <<coverage_data, apc, aexit, analysisFile, overallFile>>
genVars == <<gpc, gexit, candFile, apiCalls>>
repVars == <<after_data, rpc, rexit, reportFile, statsFile, measured, warned>>
valVars == <<vpc, vexit, attempt, success, ret, outcome, results, workFile,
             backupFile, metadata, metaFile, oracleLog, uncaught>>
txtVars == <<response, generated_content, original_content, updated_content, tpc>>

----------------------------------------------------------------------------
(* Bounds of the model *)

MaxFiles == 2
MaxLines == 2

\* reports whose entries are reordered
MaxPermFiles == 3
MaxPermLines == 3

(* range(1, 4) in the Validator's main() *)
MaxAttempts == 3

NoFile == [exists |-> FALSE]

----------------------------------------------------------------------------
(* Strings *)

\* s.endswith(suf)
EndsWith(s, suf) ==
    /\ Len(suf) <= Len(s)
    /\ SubSeq(s, Len(s) - Len(suf) + 1, Len(s)) = suf

\* sub in s
Contains(s, sub) ==
    \E i \in 1..(Len(s) - Len(sub) + 1) : SubSeq(s, i, i + Len(sub) - 1) = sub

DotRs     == <<".", "r", "s">>
TargetDir == <<"t", "a", "r", "g", "e", "t", "/">>
CargoDir  == <<".", "c", "a", "r", "g", "o", "/">>
TestsDir  == <<"/", "t", "e", "s", "t", "s", "/">>
TestRs    == <<"_", "t", "e", "s", "t", ".", "r", "s">>

\* File names the coverage oracle may report
FileNames ==
    { <<"a">> \o DotRs,
      <<"b">> \o DotRs,
      <<"a", ".", "p", "y">>,
      TargetDir \o <<"a">> \o DotRs,
      CargoDir \o <<"a">> \o DotRs,
      <<"x">> \o TestsDir \o <<"a">> \o DotRs,
      <<"a">> \o TestRs }

----------------------------------------------------------------------------
(* Floats.  Every float the scripts compute from the line counters is a     *)
(* multiple of 2^-60 below 2^12 in magnitude, so a float x is the pair     *)
(* <<sign, mag>> with mag the three limbs, base 2^24 and lowest first, of  *)
(* the integer |x| * 2^60.  Each operation takes the exact result and      *)
(* rounds it to 53 significant bits, ties to even, as IEEE 754 binary64    *)
(* arithmetic does.                                                        *)

Base == 2^24

MZero == <<0, 0, 0>>

\* the limbs of a0 + a1 * Base + a2 * Base^2
MNorm(a0, a1, a2) ==
    LET c0 == a0 \div Base
        c1 == (a1 + c0) \div Base
    IN  <<a0 % Base, (a1 + c0) % Base, a2 + c1>>

MAdd(x, y) == MNorm(x[1] + y[1], x[2] + y[2], x[3] + y[3])

\* x - y for x >= y
MSub(x, y) == MNorm(x[1] - y[1], x[2] - y[2], x[3] - y[3])

MLess(x, y) ==
    \/ x[3] < y[3]
    \/ x[3] = y[3] /\ x[2] < y[2]
    \/ x[3] = y[3] /\ x[2] = y[2] /\ x[1] < y[1]

\* x * k for a small k
MMulInt(x, k) == MNorm(x[1] * k, x[2] * k, x[3] * k)

\* <<x div n, x mod n>> for a small n
MDivInt(x, n) ==
    LET t1 == (x[3] % n) * Base + x[2]
        t0 == (t1 % n) * Base + x[1]
    IN  << <<t0 \div n, t1 \div n, x[3] \div n>>, t0 % n >>

\* number of bits of k
RECURSIVE BitLen(_)
BitLen(k) == IF k = 0 THEN 0 ELSE 1 + BitLen(k \div 2)

MBitLen(x) ==
    IF x[3] > 0 THEN 48 + BitLen(x[3])
    ELSE IF x[2] > 0 THEN 24 + BitLen(x[2])
    ELSE BitLen(x[1])

\* x, with a non-zero part below its lowest bit if sticky, rounded to 53
\* significant bits, ties to even
Round53(x, sticky) ==
    LET s == MBitLen(x) - 53
    IN  IF s <= 0 THEN x
        ELSE LET p    == 2^s
                 r    == x[1] % p
                 half == p \div 2
                 odd  == (x[1] \div p) % 2 = 1
                 up   == r > half \/ (r = half /\ (sticky \/ odd))
             IN  MNorm(x[1] - r + (IF up THEN p ELSE 0), x[2], x[3])

FZero == <<1, MZero>>

\* a + b
FAdd(a, b) ==
    IF a[1] = b[1] THEN <<a[1], Round53(MAdd(a[2], b[2]), FALSE)>>
    ELSE IF a[2] = b[2] THEN FZero
    ELSE IF MLess(a[2], b[2]) THEN <<b[1], Round53(MSub(b[2], a[2]), FALSE)>>
    ELSE <<a[1], Round53(MSub(a[2], b[2]), FALSE)>>

\* a - b
FSub(a, b) == FAdd(a, IF b[2] = MZero THEN b ELSE <<0 - b[1], b[2]>>)

\* a / n for a >= 0 and an int n > 0
FDivInt(a, n) ==
    LET qr == MDivInt(a[2], n)
    IN  <<a[1], Round53(qr[1], qr[2] # 0)>>

\* a < b
FLess(a, b) ==
    IF a[1] # b[1] THEN a[1] < b[1]
    ELSE IF a[1] = 1 THEN MLess(a[2], b[2])
    ELSE MLess(b[2], a[2])

\* covered / total for ints covered >= 0, total > 0
FQuotient(covered, total) == FDivInt(<<1, <<0, 0, covered * 2^12>> >>, total)

\* (covered / total) * 100
PctOf(covered, total) ==
    <<1, Round53(MMulInt(FQuotient(covered, total)[2], 100), FALSE)>>

\* PctOf for the line counters within the bounds, computed once
MaxCounter == IF MaxLines > MaxPermLines THEN MaxLines ELSE MaxPermLines

PctTable ==
    [covered \in 0..MaxCounter |-> [total \in 1..MaxCounter |-> PctOf(covered, total)]]

\* coverage_pct = (covered / total) * 100
Pct(covered, total) ==
    IF covered <= MaxCounter /\ total <= MaxCounter THEN PctTable[covered][total]
    ELSE PctOf(covered, total)

----------------------------------------------------------------------------
(* Coverage reports: the "files" array of data[0], one record per file with *)
(* the line counters of its summary.                                        *)

\* summary.lines of one file: covered <= count
FileData == [filename : FileNames, covered : 0..MaxLines, total : 0..MaxLines]

Entries == { e \in FileData : e.covered <= e.total }

RECURSIVE SeqsUpTo(_, _)
SeqsUpTo(S, n) ==
    IF n = 0 THEN { <<>> }
    ELSE LET shorter == SeqsUpTo(S, n - 1)
         IN  shorter \cup { Append(s, e) : s \in { t \in shorter : Len(t) = n - 1 }, e \in S }

Reports == SeqsUpTo(Entries, MaxFiles)

\* Reports of one source file name, for the statistics over reorderings
PermEntries ==
    { e \in [filename : { <<"a">> \o DotRs }, covered : 0..MaxPermLines,
             total : 0..MaxPermLines] : e.covered <= e.total }

PermReports == SeqsUpTo(PermEntries, MaxPermFiles)

----------------------------------------------------------------------------
(* analyze_coverage.py *)

stats_of(file_data) ==
    [covered  |-> file_data.covered,
     total    |-> file_data.total,
     coverage |-> Pct(file_data.covered, file_data.total)]

\* extract_loop without the _test.rs suffix test
RECURSIVE extract_loop_no_suffix(_, _, _)
extract_loop_no_suffix(files, i, file_stats) ==
    IF i > Len(files) THEN file_stats
    ELSE LET file_data == files[i]
             filename  == file_data.filename
         IN  IF ~EndsWith(filename, DotRs)
                 THEN extract_loop_no_suffix(files, i + 1, file_stats)
             ELSE IF Contains(filename, TargetDir) \/ Contains(filename, CargoDir)
                 THEN extract_loop_no_suffix(files, i + 1, file_stats)
             ELSE IF Contains(filename, TestsDir)
                 THEN extract_loop_no_suffix(files, i + 1, file_stats)
             ELSE IF file_data.total > 0
                 THEN extract_loop_no_suffix(files, i + 1,
                          Append(file_stats,
                                 <<filename,
                                   Pct(file_data.covered, file_data.total),
                                   stats_of(file_data)>>))
             ELSE extract_loop_no_suffix(files, i + 1, file_stats)

\* The for loop of extract_file_coverage from index i on
RECURSIVE extract_loop(_, _, _)
extract_loop(files, i, file_stats) ==
    IF i > Len(files) THEN file_stats
    ELSE LET file_data == files[i]
             filename  == file_data.filename
         IN  IF ~EndsWith(filename, DotRs)
                 THEN extract_loop(files, i + 1, file_stats)
             ELSE IF Contains(filename, TargetDir) \/ Contains(filename, CargoDir)
                 THEN extract_loop(files, i + 1, file_stats)
             ELSE IF Contains(filename, TestsDir) \/ EndsWith(filename, TestRs)
                 THEN extract_loop(files, i + 1, file_stats)
             ELSE IF file_data.total > 0
                 THEN extract_loop(files, i + 1,
                          Append(file_stats,
                                 <<filename,
                                   Pct(file_data.covered, file_data.total),
                                   stats_of(file_data)>>))
             ELSE extract_loop(files, i + 1, file_stats)

\* List of (filepath, coverage_percentage, stats) tuples
extract_file_coverage(files) == extract_loop(files, 1, <<>>)

\* insert_stable placing x before the elements of equal key
RECURSIVE insert_before_equal(_, _)
insert_before_equal(s, x) ==
    IF s = <<>> THEN <<x>>
    ELSE IF ~FLess(Head(s)[2], x[2]) THEN <<x>> \o s
    ELSE <<Head(s)>> \o insert_before_equal(Tail(s), x)

\* Stable insertion of x by its key x[2]: after every element whose key is
\* not greater
RECURSIVE insert_stable(_, _)
insert_stable(s, x) ==
    IF s = <<>> THEN <<x>>
    ELSE IF FLess(x[2], Head(s)[2]) THEN <<x>> \o s
    ELSE <<Head(s)>> \o insert_stable(Tail(s), x)

\* sorted(file_stats, key=lambda x: x[1]); Python's sort is stable
RECURSIVE sorted_by_pct(_)
sorted_by_pct(s) ==
    IF s = <<>> THEN <<>>
    ELSE insert_stable(sorted_by_pct(SubSeq(s, 1, Len(s) - 1)), s[Len(s)])

\* (filename, stats) of the first element of the sorted list; file_stats is
\* not empty
find_least_covered_file(file_stats) ==
    LET least_covered == sorted_by_pct(file_stats)[1]
    IN  <<least_covered[1], least_covered[3]>>

\* sum(x[1] for x in file_stats)
RECURSIVE sum_pct(_)
sum_pct(file_stats) ==
    IF file_stats = <<>> THEN FZero
    ELSE FAdd(sum_pct(SubSeq(file_stats, 1, Len(file_stats) - 1)),
              file_stats[Len(file_stats)][2])

RECURSIVE sum_field(_, _)
sum_field(file_stats, field) ==
    IF file_stats = <<>> THEN 0
    ELSE file_stats[1][3][field] + sum_field(Tail(file_stats), field)

\* overall_stats with the average weighted by the line counts
overall_stats_weighted(file_stats) ==
    [total_files      |-> Len(file_stats),
     average_coverage |-> Pct(sum_field(file_stats, "covered"),
                              sum_field(file_stats, "total"))]

\* overall_stats of main()
overall_stats(file_stats) ==
    [total_files      |-> Len(file_stats),
     average_coverage |-> FDivInt(sum_pct(file_stats), Len(file_stats))]

\* the document main() dumps to /tmp/coverage_analysis.json
analysis_output(file_stats) ==
    LET least == find_least_covered_file(file_stats)
    IN  [exists |-> TRUE, file |-> least[1], coverage |-> least[2].coverage,
         stats |-> least[2]]

AnalyzerCanStart ==
    /\ apc = "idle" /\ gpc = "idle" /\ vpc = "idle" /\ rpc = "idle"

\* run_coverage(): the oracle's process exits non-zero
AnalyzerOracleFails ==
    /\ AnalyzerCanStart
    /\ apc' = "exited"
    /\ aexit' = 1
    /\ UNCHANGED <<coverage_data, analysisFile, overallFile>>
    /\ UNCHANGED <<genVars, repVars, valVars, txtVars>>

\* AnalyzerNoFiles leaving a snapshot without files behind
AnalyzerNoFiles_WritesSnapshot ==
    /\ AnalyzerCanStart
    /\ extract_file_coverage(coverage_data) = <<>>
    /\ apc' = "exited"
    /\ aexit' = 1
    /\ overallFile' = [exists |-> TRUE, total_files |-> 0]
    /\ UNCHANGED <<coverage_data, analysisFile>>
    /\ UNCHANGED <<genVars, repVars, valVars, txtVars>>

\* main(): no file survives the filter
AnalyzerNoFiles ==
    /\ AnalyzerCanStart
    /\ extract_file_coverage(coverage_data) = <<>>
    /\ apc' = "exited"
    /\ aexit' = 1
    /\ UNCHANGED <<coverage_data, analysisFile, overallFile>>
    /\ UNCHANGED <<genVars, repVars, valVars, txtVars>>

\* main(): selection and both result files written
AnalyzerMain ==
    /\ AnalyzerCanStart
    /\ LET file_stats == extract_file_coverage(coverage_data)
       IN  /\ file_stats # <<>>
           /\ analysisFile' = analysis_output(file_stats)
           /\ overallFile' = [exists |-> TRUE] @@ overall_stats(file_stats)
    /\ apc' = "exited"
    /\ aexit' = 0
    /\ UNCHANGED coverage_data
    /\ UNCHANGED <<genVars, repVars, valVars, txtVars>>

----------------------------------------------------------------------------
(* generate_tests.py: main().  The model's answer and the splice are text   *)
(* functions; here the candidate they produce is the opaque content "cand", *)
(* different from the file's original content "orig".                       *)

GeneratorCanStart ==
    /\ gpc = "idle" /\ vpc = "idle" /\ rpc = "idle"

\* the metadata dict of main()
generator_metadata(analysis) ==
    [exists               |-> TRUE,
     original_file        |-> analysis.file,
     generated_tests_path |-> "/tmp/updated_file.rs",
     coverage_before      |-> analysis.stats.coverage,
     validation_success   |-> "unset",
     validation_attempts  |-> 0]

\* GeneratorNoAnalysis with the existence test placed after the request
GeneratorNoAnalysis_AfterCall ==
    /\ GeneratorCanStart
    /\ ~analysisFile.exists
    /\ apiCalls' = apiCalls + 1
    /\ gpc' = "exited"
    /\ gexit' = 1
    /\ UNCHANGED candFile
    /\ UNCHANGED <<covVars, repVars, valVars, txtVars>>

\* main(): no coverage analysis result, sys.exit(1)
GeneratorNoAnalysis ==
    /\ GeneratorCanStart
    /\ ~analysisFile.exists
    /\ gpc' = "exited"
    /\ gexit' = 1
    /\ UNCHANGED <<candFile, apiCalls>>
    /\ UNCHANGED <<covVars, repVars, valVars, txtVars>>

\* main(): the target unreadable or no token: sys.exit(1) before the request
\* is sent and before anything is written
GeneratorAborts ==
    /\ GeneratorCanStart
    /\ analysisFile.exists
    /\ gpc' = "exited"
    /\ gexit' = 1
    /\ UNCHANGED <<candFile, apiCalls>>
    /\ UNCHANGED <<covVars, repVars, valVars, txtVars>>

\* call_github_models_api(): the request raises, sys.exit(1)
GeneratorApiFails ==
    /\ GeneratorCanStart
    /\ analysisFile.exists
    /\ apiCalls' = apiCalls + 1
    /\ gpc' = "exited"
    /\ gexit' = 1
    /\ UNCHANGED candFile
    /\ UNCHANGED <<covVars, repVars, valVars, txtVars>>

\* main(): candidate and metadata written
GeneratorMain ==
    /\ GeneratorCanStart
    /\ analysisFile.exists
    /\ candFile' = [exists |-> TRUE, content |-> "cand"]
    /\ metaFile' = generator_metadata(analysisFile)
    /\ apiCalls' = apiCalls + 1
    /\ gpc' = "exited"
    /\ gexit' = 0
    /\ UNCHANGED <<covVars, repVars, txtVars>>
    /\ UNCHANGED <<vpc, vexit, attempt, success, ret, outcome, results, workFile,
                   backupFile, metadata, oracleLog, uncaught>>

----------------------------------------------------------------------------
(* generate_tests.py: the text functions.  Texts are sequences of           *)
(* one-character strings; positions are Python's, counted from 0.           *)

MaxPieces == 4
MaxTextLines == 4

Min(S) == CHOOSE x \in S : \A y \in S : x <= y

\* s.find(sub, start): the lowest index >= start where sub occurs, or -1
Find(s, sub, start) ==
    LET hits == { i \in start..(Len(s) - Len(sub)) :
                      SubSeq(s, i + 1, i + Len(sub)) = sub }
    IN  IF hits = {} THEN -1 ELSE Min(hits)

\* the characters str.strip() removes
Whitespace == {" ", "\n", "\t", "\r", "\f"}

RECURSIVE LStrip(_)
LStrip(s) ==
    IF s # <<>> /\ Head(s) \in Whitespace THEN LStrip(Tail(s)) ELSE s

RECURSIVE RStrip(_)
RStrip(s) ==
    IF s # <<>> /\ s[Len(s)] \in Whitespace
        THEN RStrip(SubSeq(s, 1, Len(s) - 1))
    ELSE s

\* Strip with the text returned as it is
Strip_Nothing(s) == s

\* s.strip()
Strip(s) == LStrip(RStrip(s))

\* The backquote character, which a TLA+ string cannot hold
Backquote == "BACKQUOTE"

\* The closing fence and the opening fence of a rust code block
Fence == <<Backquote, Backquote, Backquote>>
FenceRust == Fence \o <<"r", "u", "s", "t">>
Marker == <<"#", "[", "c", "f", "g", "(", "t", "e", "s", "t", ")", "]">>

\* call_github_models_api(): the code taken out of the response
extract_code(content) ==
    IF Contains(content, FenceRust)
        THEN LET start == Find(content, FenceRust, 0) + 7
                 end   == Find(content, Fence, start)
             IN  IF end > start
                     THEN Strip(SubSeq(content, start + 1, end))
                 ELSE content
    ELSE content

\* s.split('\n')
RECURSIVE split_lines(_)
split_lines(s) ==
    LET nl == Find(s, <<"\n">>, 0)
    IN  IF nl = -1 THEN <<s>>
        ELSE <<SubSeq(s, 1, nl)>> \o split_lines(SubSeq(s, nl + 2, Len(s)))

\* '\n'.join(lines)
RECURSIVE join_lines(_)
join_lines(lines) ==
    IF Len(lines) = 0 THEN <<>>
    ELSE IF Len(lines) = 1 THEN lines[1]
    ELSE lines[1] \o <<"\n">> \o join_lines(Tail(lines))

\* s.count(ch)
RECURSIVE Count(_, _)
Count(s, ch) ==
    IF s = <<>> THEN 0
    ELSE (IF Head(s) = ch THEN 1 ELSE 0) + Count(Tail(s), ch)

\* The for loop of integrate_tests_into_file from index i on: the value of
\* insert_position when the loop ends
RECURSIVE find_insert_position(_, _, _, _)
find_insert_position(lines, i, in_test_module, brace_count) ==
    IF i >= Len(lines) THEN -1
    ELSE LET line == lines[i + 1]
         IN  IF Contains(line, Marker)
                 THEN find_insert_position(lines, i + 1, TRUE, brace_count)
             ELSE IF in_test_module
                 THEN LET count == brace_count + Count(line, "{") - Count(line, "}")
                      IN  IF count = 0 /\ Contains(line, <<"}">>)
                              THEN i
                          ELSE find_insert_position(lines, i + 1, TRUE, count)
             ELSE find_insert_position(lines, i + 1, FALSE, brace_count)

\* "\n\n#[cfg(test)]\nmod tests {\n    use super::*;\n\n"
WrapperHead ==
    <<"\n", "\n", "#", "[", "c", "f", "g", "(", "t", "e", "s", "t", ")",
      "]", "\n", "m", "o", "d", " ", "t", "e", "s", "t", "s", " ", "{",
      "\n", " ", " ", " ", " ", "u", "s", "e", " ", "s", "u", "p", "e",
      "r", ":", ":", "*", ";", "\n", "\n">>

\* "\n}\n"
WrapperTail ==
    <<"\n", "}", "\n">>

integrate_tests_into_file(original, generated_tests) ==
    LET lines == split_lines(original)
        insert_position ==
            IF Contains(original, Marker)
                THEN find_insert_position(lines, 0, FALSE, 0)
            ELSE -1
    IN  IF insert_position > 0
            THEN join_lines(SubSeq(lines, 1, insert_position)
                            \o << <<>>, generated_tests >>
                            \o SubSeq(lines, insert_position + 1, Len(lines)))
        ELSE original \o WrapperHead \o generated_tests \o WrapperTail

\* call_github_models_api(), lines 102-110
ExtractCode ==
    /\ tpc = "start"
    /\ generated_content' = extract_code(response)
    /\ tpc' = "extracted"
    /\ UNCHANGED <<response, original_content, updated_content>>
    /\ UNCHANGED <<covVars, genVars, repVars, valVars>>

\* main(): updated_content = integrate_tests_into_file(...)
IntegrateTests ==
    /\ tpc = "extracted"
    /\ updated_content' = integrate_tests_into_file(original_content, generated_content)
    /\ tpc' = "integrated"
    /\ UNCHANGED <<response, generated_content, original_content>>
    /\ UNCHANGED <<covVars, genVars, repVars, valVars>>

\* Texts of up to n pieces
RECURSIVE Concats(_, _)
Concats(P, n) ==
    IF n = 0 THEN { <<>> }
    ELSE LET shorter == Concats(P, n - 1)
         IN  shorter \cup { s \o q : s \in shorter, q \in P }

ResponsePieces == { FenceRust, Fence, <<"\n">>, <<"x">>, <<"{">>, <<"}">> }

Responses == Concats(ResponsePieces, MaxPieces)

\* Scenario B: prose, an opening fence, the code, a closing fence, prose
ScenarioB ==
    <<"x", ":", "\n">> \o FenceRust \o <<"\n", "x", "\n">> \o Fence
        \o <<"\n", "x", ".">>

\* a response without a fence
ScenarioC == <<"{", "x", "}">>

\* a fenced function
ResponseFn == FenceRust \o <<"\n", "f", "{", "\n", "}", "\n">> \o Fence

SampleResponses == { ScenarioB, ScenarioC, ResponseFn }

\* Lines of a target file
LineKinds ==
    { <<>>, <<"x">>, Marker, <<"m", "{">>, <<"f", "{">>, <<"}">>,
      Marker \o <<"m", "{">> }

\* Files of 1 to n lines
RECURSIVE LinesUpTo(_)
LinesUpTo(n) ==
    IF n = 1 THEN { <<l>> : l \in LineKinds }
    ELSE LET shorter == LinesUpTo(n - 1)
         IN  shorter \cup { Append(ls, l) : ls \in shorter, l \in LineKinds }

Originals == { join_lines(ls) : ls \in LinesUpTo(MaxTextLines) }

\* a file with a test module
SampleOriginal == join_lines(<< <<"x">>, Marker, <<"m", "{">>, <<"}">> >>)

----------------------------------------------------------------------------
(* generate_report.py *)

\* The for loop of get_file_coverage_from_data from index i on; None is NoFile
RECURSIVE get_file_loop(_, _, _)
get_file_loop(files, target_file, i) ==
    IF i > Len(files) THEN NoFile
    ELSE LET file_data == files[i]
         IN  IF file_data.filename = target_file /\ file_data.total > 0
                 THEN [exists |-> TRUE] @@ stats_of(file_data)
             ELSE get_file_loop(files, target_file, i + 1)

get_file_coverage_from_data(files, target_file) ==
    get_file_loop(files, target_file, 1)

\* overall_loop without the test-file exclusion
RECURSIVE overall_loop_with_tests(_, _, _, _)
overall_loop_with_tests(files, i, file_count, total_coverage) ==
    IF i > Len(files) THEN <<file_count, total_coverage>>
    ELSE LET file_data == files[i]
             filename  == file_data.filename
         IN  IF ~EndsWith(filename, DotRs)
                 THEN overall_loop_with_tests(files, i + 1, file_count, total_coverage)
             ELSE IF Contains(filename, TargetDir) \/ Contains(filename, CargoDir)
                 THEN overall_loop_with_tests(files, i + 1, file_count, total_coverage)
             ELSE IF file_data.total > 0
                 THEN overall_loop_with_tests(files, i + 1, file_count + 1,
                          FAdd(total_coverage,
                               Pct(file_data.covered, file_data.total)))
             ELSE overall_loop_with_tests(files, i + 1, file_count, total_coverage)

\* The for loop of calculate_overall_coverage from index i on, with its two
\* accumulators
RECURSIVE overall_loop(_, _, _, _)
overall_loop(files, i, file_count, total_coverage) ==
    IF i > Len(files) THEN <<file_count, total_coverage>>
    ELSE LET file_data == files[i]
             filename  == file_data.filename
         IN  IF ~EndsWith(filename, DotRs)
                 THEN overall_loop(files, i + 1, file_count, total_coverage)
             ELSE IF Contains(filename, TargetDir) \/ Contains(filename, CargoDir)
                 THEN overall_loop(files, i + 1, file_count, total_coverage)
             ELSE IF Contains(filename, TestsDir) \/ EndsWith(filename, TestRs)
                 THEN overall_loop(files, i + 1, file_count, total_coverage)
             ELSE IF file_data.total > 0
                 THEN overall_loop(files, i + 1, file_count + 1,
                          FAdd(total_coverage,
                               Pct(file_data.covered, file_data.total)))
             ELSE overall_loop(files, i + 1, file_count, total_coverage)

calculate_overall_coverage(files) ==
    LET acc == overall_loop(files, 1, 0, FZero)
        file_count     == acc[1]
        total_coverage == acc[2]
    IN  IF file_count > 0
            THEN [total_files      |-> file_count,
                  average_coverage |-> FDivInt(total_coverage, file_count)]
        ELSE [total_files |-> 0, average_coverage |-> FZero]

\* The variable parts of the rendered report
generate_report(meta, before_coverage, after_coverage, before_overall, after_overall) ==
    [exists              |-> TRUE,
     target_file         |-> meta.original_file,
     file_improvement    |-> FSub(after_coverage.coverage, before_coverage.coverage),
     lines_improvement   |-> after_coverage.covered - before_coverage.covered,
     overall_improvement |-> FSub(after_overall.average_coverage,
                                  before_overall.average_coverage),
     validation_attempts |-> IF meta.validation_attempts = 0 THEN "N/A"
                             ELSE ToString(meta.validation_attempts),
     validation_status   |-> IF meta.validation_success = "true" THEN "Success"
                             ELSE "Failed"]

ReportCanStart ==
    /\ rpc = "idle" /\ vpc \in {"idle", "exited"}

\* main(): no metadata file
ReportNoMetadata ==
    /\ ReportCanStart
    /\ ~metaFile.exists
    /\ rpc' = "exited"
    /\ rexit' = 1
    /\ UNCHANGED <<after_data, reportFile, statsFile, measured, warned>>
    /\ UNCHANGED <<covVars, genVars, valVars, txtVars>>

\* run_coverage_after(): the oracle's process exits non-zero or times out
ReportOracleFails ==
    /\ ReportCanStart
    /\ metaFile.exists /\ analysisFile.exists /\ overallFile.exists
    /\ measured' = "failed"
    /\ rpc' = "exited"
    /\ rexit' = 1
    /\ UNCHANGED <<after_data, reportFile, statsFile, warned>>
    /\ UNCHANGED <<covVars, genVars, valVars, txtVars>>

\* ReportMain with empty statistics in place of the before-snapshot
ReportMain_ZeroFallback ==
    /\ ReportCanStart
    /\ metaFile.exists /\ analysisFile.exists /\ overallFile.exists
    /\ LET target_file     == metaFile.original_file
           before_coverage == analysisFile.stats
           before_overall  == [total_files      |-> overallFile.total_files,
                               average_coverage |-> overallFile.average_coverage]
           found           == get_file_coverage_from_data(after_data, target_file)
           after_coverage  == IF ~found.exists
                                  THEN [covered |-> 0, total |-> 0, coverage |-> FZero]
                              ELSE [covered  |-> found.covered,
                                    total    |-> found.total,
                                    coverage |-> found.coverage]
           after_overall   == calculate_overall_coverage(after_data)
           report          == generate_report(metaFile, before_coverage, after_coverage,
                                              before_overall, after_overall)
       IN  /\ reportFile' = report
           /\ statsFile' =
                  [exists       |-> TRUE,
                   target_file  |-> target_file,
                   before       |-> [file |-> before_coverage, overall |-> before_overall],
                   after        |-> [file |-> after_coverage, overall |-> after_overall],
                   improvements |-> [file_coverage    |-> report.file_improvement,
                                     lines_covered    |-> report.lines_improvement,
                                     overall_coverage |-> report.overall_improvement]]
           /\ warned' = ~found.exists
    /\ measured' = "ok"
    /\ rpc' = "exited"
    /\ rexit' = 0
    /\ UNCHANGED after_data
    /\ UNCHANGED <<covVars, genVars, valVars, txtVars>>

\* main(): report and statistics written
ReportMain ==
    /\ ReportCanStart
    /\ metaFile.exists /\ analysisFile.exists /\ overallFile.exists
    /\ LET target_file     == metaFile.original_file
           before_coverage == analysisFile.stats
           before_overall  == [total_files      |-> overallFile.total_files,
                               average_coverage |-> overallFile.average_coverage]
           found           == get_file_coverage_from_data(after_data, target_file)
           after_coverage  == IF ~found.exists THEN before_coverage
                              ELSE [covered  |-> found.covered,
                                    total    |-> found.total,
                                    coverage |-> found.coverage]
           after_overall   == calculate_overall_coverage(after_data)
           report          == generate_report(metaFile, before_coverage, after_coverage,
                                              before_overall, after_overall)
       IN  /\ reportFile' = report
           /\ statsFile' =
                  [exists       |-> TRUE,
                   target_file  |-> target_file,
                   before       |-> [file |-> before_coverage, overall |-> before_overall],
                   after        |-> [file |-> after_coverage, overall |-> after_overall],
                   improvements |-> [file_coverage    |-> report.file_improvement,
                                     lines_covered    |-> report.lines_improvement,
                                     overall_coverage |-> report.overall_improvement]]
           /\ warned' = ~found.exists
    /\ measured' = "ok"
    /\ rpc' = "exited"
    /\ rexit' = 0
    /\ UNCHANGED after_data
    /\ UNCHANGED <<covVars, genVars, valVars, txtVars>>

----------------------------------------------------------------------------
(* validate_tests.py.  File contents are "orig" (the target as the working  *)
(* tree holds it before the run), "cand" (the candidate) and "partial" (a   *)
(* copy that raised after it began to write); "none" is no file.  The       *)
(* copies of the finally block and of apply_tests() complete.               *)

ValidatorCanStart ==
    /\ vpc = "idle" /\ rpc = "idle"

OracleResults == {"pass", "fail", "timeout", "error"}

\* main(): no metadata file
VNoMetadata ==
    /\ ValidatorCanStart
    /\ ~metaFile.exists
    /\ vpc' = "exited"
    /\ vexit' = 1
    /\ UNCHANGED <<attempt, success, ret, outcome, results, workFile, backupFile,
                   metadata, metaFile>>
    /\ UNCHANGED <<covVars, genVars, repVars, txtVars>>
    /\ UNCHANGED <<oracleLog, uncaught>>

\* main(): metadata loaded, the loop entered with attempt 1
VLoadMetadata ==
    /\ ValidatorCanStart
    /\ metaFile.exists
    /\ metadata' = metaFile
    /\ attempt' = 1
    /\ vpc' = "backup"
    /\ UNCHANGED <<vexit, success, ret, outcome, results, workFile, backupFile,
                   metaFile>>
    /\ UNCHANGED <<covVars, genVars, repVars, txtVars>>
    /\ UNCHANGED <<oracleLog, uncaught>>

\* validate_tests(): shutil.copy2(original_file_path, backup_path)
VBackup ==
    /\ vpc = "backup"
    /\ backupFile' = workFile
    /\ vpc' = "stage"
    /\ UNCHANGED <<vexit, attempt, success, ret, outcome, results, workFile,
                   metadata, metaFile>>
    /\ UNCHANGED <<covVars, genVars, repVars, txtVars>>
    /\ UNCHANGED <<oracleLog, uncaught>>

\* VBackupFails with the error caught and the attempt going on
VBackupFails_Swallowed ==
    /\ vpc = "backup"
    /\ backupFile' \in {backupFile, "partial"}
    /\ uncaught' = "backup"
    /\ vpc' = "stage"
    /\ UNCHANGED <<vexit, attempt, success, ret, outcome, results, workFile, metadata,
                   metaFile>>
    /\ UNCHANGED <<covVars, genVars, repVars, txtVars>>
    /\ UNCHANGED oracleLog

\* validate_tests(): the backup copy raises, outside the try block; the
\* exception leaves main() and the interpreter exits with status 1
VBackupFails ==
    /\ vpc = "backup"
    /\ backupFile' \in {backupFile, "partial"}
    /\ uncaught' = "backup"
    /\ vpc' = "exited"
    /\ vexit' = 1
    /\ UNCHANGED <<attempt, success, ret, outcome, results, workFile, metadata,
                   metaFile>>
    /\ UNCHANGED <<covVars, genVars, repVars, txtVars>>
    /\ UNCHANGED oracleLog

\* VStage moving the candidate instead of copying it
VStage_MovesCandidate ==
    /\ vpc = "stage"
    /\ candFile.exists
    /\ workFile' = candFile.content
    /\ candFile' = NoFile
    /\ vpc' = "check"
    /\ UNCHANGED <<vexit, attempt, success, ret, outcome, results, backupFile,
                   metadata, metaFile>>
    /\ UNCHANGED <<covVars, repVars, txtVars, gpc, gexit, apiCalls>>
    /\ UNCHANGED <<oracleLog, uncaught>>

\* validate_tests(): shutil.copy2(test_file_path, original_file_path)
VStage ==
    /\ vpc = "stage"
    /\ candFile.exists
    /\ workFile' = candFile.content
    /\ vpc' = "check"
    /\ UNCHANGED <<vexit, attempt, success, ret, outcome, results, backupFile,
                   metadata, metaFile>>
    /\ UNCHANGED <<covVars, genVars, repVars, txtVars>>
    /\ UNCHANGED <<oracleLog, uncaught>>

\* VStageFails with the exception leaving validate_tests() and main()
VStageFails_Surfaced ==
    /\ vpc = "stage"
    /\ workFile' \in {workFile, "partial"}
    /\ outcome' = "error"
    /\ uncaught' = "stage"
    /\ vpc' = "exited"
    /\ vexit' = 1
    /\ UNCHANGED <<attempt, success, ret, results, backupFile, metadata, metaFile>>
    /\ UNCHANGED <<covVars, genVars, repVars, txtVars>>
    /\ UNCHANGED oracleLog

\* validate_tests(): the staging copy raises; except Exception returns False
VStageFails ==
    /\ vpc = "stage"
    /\ workFile' \in {workFile, "partial"}
    /\ outcome' = "error"
    /\ ret' = FALSE
    /\ vpc' = "finally"
    /\ UNCHANGED <<vexit, attempt, success, results, backupFile, metadata, metaFile>>
    /\ UNCHANGED <<covVars, genVars, repVars, txtVars>>
    /\ UNCHANGED <<oracleLog, uncaught>>

\* VCheck with the tests run after a compile check that timed out
VCheck_TestAfterTimeout ==
    /\ vpc = "check"
    /\ \E r \in OracleResults :
          /\ IF r \in {"pass", "timeout"}
                 THEN /\ vpc' = "test"
                      /\ UNCHANGED <<ret, outcome>>
             ELSE /\ vpc' = "finally"
                  /\ ret' = FALSE
                  /\ outcome' = IF r = "fail" THEN "compile_failed" ELSE r
          /\ oracleLog' = Append(oracleLog,
                                 [attempt |-> attempt, oracle |-> "check", result |-> r])
    /\ UNCHANGED <<vexit, attempt, success, results, workFile, backupFile,
                   metadata, metaFile>>
    /\ UNCHANGED <<covVars, genVars, repVars, txtVars>>
    /\ UNCHANGED uncaught

\* validate_tests(): cargo check, timeout 300
VCheck ==
    /\ vpc = "check"
    /\ \E r \in OracleResults :
          /\ IF r = "pass"
                 THEN /\ vpc' = "test"
                      /\ UNCHANGED <<ret, outcome>>
             ELSE /\ vpc' = "finally"
                  /\ ret' = FALSE
                  /\ outcome' = IF r = "fail" THEN "compile_failed" ELSE r
          /\ oracleLog' = Append(oracleLog,
                                 [attempt |-> attempt, oracle |-> "check", result |-> r])
    /\ UNCHANGED <<vexit, attempt, success, results, workFile, backupFile,
                   metadata, metaFile>>
    /\ UNCHANGED <<covVars, genVars, repVars, txtVars>>
    /\ UNCHANGED uncaught

\* validate_tests(): cargo test, timeout 600
VTest ==
    /\ vpc = "test"
    /\ \E r \in OracleResults :
          /\ ret' = (r = "pass")
          /\ outcome' = IF r = "pass" THEN "passed"
                        ELSE IF r = "fail" THEN "tests_failed" ELSE r
          /\ oracleLog' = Append(oracleLog,
                                 [attempt |-> attempt, oracle |-> "test", result |-> r])
    /\ vpc' = "finally"
    /\ UNCHANGED <<vexit, attempt, success, results, workFile, backupFile,
                   metadata, metaFile>>
    /\ UNCHANGED <<covVars, genVars, repVars, txtVars>>
    /\ UNCHANGED uncaught

\* VRestore without the restoring copy
VRestore_Never ==
    /\ vpc = "finally"
    /\ vpc' = "cleanup"
    /\ UNCHANGED <<vexit, attempt, success, ret, outcome, results, workFile,
                   backupFile, metadata, metaFile>>
    /\ UNCHANGED <<covVars, genVars, repVars, txtVars>>
    /\ UNCHANGED <<oracleLog, uncaught>>

\* VRestore restoring on every path but the timeout
VRestore_NotOnTimeout ==
    /\ vpc = "finally"
    /\ workFile' = IF ~success /\ outcome # "timeout" THEN backupFile ELSE workFile
    /\ vpc' = "cleanup"
    /\ UNCHANGED <<vexit, attempt, success, ret, outcome, results, backupFile,
                   metadata, metaFile>>
    /\ UNCHANGED <<covVars, genVars, repVars, txtVars>>
    /\ UNCHANGED <<oracleLog, uncaught>>

\* VRestore leaving a candidate that failed to compile in place
VRestore_NotOnCompileFailure ==
    /\ vpc = "finally"
    /\ workFile' = IF ~success /\ outcome # "compile_failed" THEN backupFile
                   ELSE workFile
    /\ vpc' = "cleanup"
    /\ UNCHANGED <<vexit, attempt, success, ret, outcome, results, backupFile,
                   metadata, metaFile>>
    /\ UNCHANGED <<covVars, genVars, repVars, txtVars>>
    /\ UNCHANGED <<oracleLog, uncaught>>

\* validate_tests(), finally: restore the backup unless the attribute
\* validate_tests.success is set
VRestore ==
    /\ vpc = "finally"
    /\ workFile' = IF ~success THEN backupFile ELSE workFile
    /\ vpc' = "cleanup"
    /\ UNCHANGED <<vexit, attempt, success, ret, outcome, results, backupFile,
                   metadata, metaFile>>
    /\ UNCHANGED <<covVars, genVars, repVars, txtVars>>
    /\ UNCHANGED <<oracleLog, uncaught>>

\* validate_tests(), finally: the backup is unlinked and the call returns
VCleanup ==
    /\ vpc = "cleanup"
    /\ backupFile' = "none"
    /\ results' = Append(results, ret)
    /\ vpc' = "returned"
    /\ UNCHANGED <<vexit, attempt, success, ret, outcome, workFile, metadata, metaFile>>
    /\ UNCHANGED <<covVars, genVars, repVars, txtVars>>
    /\ UNCHANGED <<oracleLog, uncaught>>

\* VDriver with the loop bound off by one
VDriver_OneMore ==
    /\ vpc = "returned"
    /\ success' = ret
    /\ IF ret
           THEN /\ vpc' = "apply"
                /\ UNCHANGED attempt
       ELSE IF attempt <= MaxAttempts
           THEN /\ vpc' = "backup"
                /\ attempt' = attempt + 1
       ELSE /\ vpc' = "exhausted"
            /\ UNCHANGED attempt
    /\ UNCHANGED <<vexit, ret, outcome, results, workFile, backupFile, metadata,
                   metaFile>>
    /\ UNCHANGED <<covVars, genVars, repVars, txtVars>>
    /\ UNCHANGED <<oracleLog, uncaught>>

\* VDriver with a loop that retries until an attempt succeeds
VDriver_UntilSuccess ==
    /\ vpc = "returned"
    /\ success' = ret
    /\ IF ret
           THEN /\ vpc' = "apply"
                /\ UNCHANGED attempt
       ELSE /\ vpc' = "backup"
            /\ attempt' = IF attempt < MaxAttempts THEN attempt + 1 ELSE attempt
    /\ UNCHANGED <<vexit, ret, outcome, results, workFile, backupFile, metadata,
                   metaFile>>
    /\ UNCHANGED <<covVars, genVars, repVars, txtVars>>
    /\ UNCHANGED <<oracleLog, uncaught>>

\* main(): validate_tests.success = validate_tests(...) and the branch on it
VDriver ==
    /\ vpc = "returned"
    /\ success' = ret
    /\ IF ret
           THEN /\ vpc' = "apply"
                /\ UNCHANGED attempt
       ELSE IF attempt < MaxAttempts
           THEN /\ vpc' = "backup"
                /\ attempt' = attempt + 1
       ELSE /\ vpc' = "exhausted"
            /\ UNCHANGED attempt
    /\ UNCHANGED <<vexit, ret, outcome, results, workFile, backupFile, metadata,
                   metaFile>>
    /\ UNCHANGED <<covVars, genVars, repVars, txtVars>>
    /\ UNCHANGED <<oracleLog, uncaught>>

\* apply_tests()
VApply ==
    /\ vpc = "apply"
    /\ workFile' = candFile.content
    /\ vpc' = "record"
    /\ UNCHANGED <<vexit, attempt, success, ret, outcome, results, backupFile,
                   metadata, metaFile>>
    /\ UNCHANGED <<covVars, genVars, repVars, txtVars>>
    /\ UNCHANGED <<oracleLog, uncaught>>

\* VRecordSuccess recording the loop's bound instead of the attempt
VRecordSuccess_Bound ==
    /\ vpc = "record"
    /\ metadata' = [metadata EXCEPT !.validation_success = "true",
                                    !.validation_attempts = MaxAttempts]
    /\ metaFile' = metadata'
    /\ vpc' = "exited"
    /\ vexit' = 0
    /\ UNCHANGED <<attempt, success, ret, outcome, results, workFile, backupFile>>
    /\ UNCHANGED <<covVars, genVars, repVars, txtVars>>
    /\ UNCHANGED <<oracleLog, uncaught>>

\* main(): success recorded in the metadata, sys.exit(0)
VRecordSuccess ==
    /\ vpc = "record"
    /\ metadata' = [metadata EXCEPT !.validation_success = "true",
                                    !.validation_attempts = attempt]
    /\ metaFile' = metadata'
    /\ vpc' = "exited"
    /\ vexit' = 0
    /\ UNCHANGED <<attempt, success, ret, outcome, results, workFile, backupFile>>
    /\ UNCHANGED <<covVars, genVars, repVars, txtVars>>
    /\ UNCHANGED <<oracleLog, uncaught>>

\* VRecordFailure falling off the end of main(): exit status 0
VRecordFailure_ExitZero ==
    /\ vpc = "exhausted"
    /\ metadata' = [metadata EXCEPT !.validation_success = "false",
                                    !.validation_attempts = 3]
    /\ metaFile' = metadata'
    /\ vpc' = "exited"
    /\ vexit' = 0
    /\ UNCHANGED <<attempt, success, ret, outcome, results, workFile, backupFile>>
    /\ UNCHANGED <<covVars, genVars, repVars, txtVars>>
    /\ UNCHANGED <<oracleLog, uncaught>>

\* main(): all attempts failed, failure recorded, sys.exit(1)
VRecordFailure ==
    /\ vpc = "exhausted"
    /\ metadata' = [metadata EXCEPT !.validation_success = "false",
                                    !.validation_attempts = 3]
    /\ metaFile' = metadata'
    /\ vpc' = "exited"
    /\ vexit' = 1
    /\ UNCHANGED <<attempt, success, ret, outcome, results, workFile, backupFile>>
    /\ UNCHANGED <<covVars, genVars, repVars, txtVars>>
    /\ UNCHANGED <<oracleLog, uncaught>>

----------------------------------------------------------------------------
(* Specifications *)

FName(c) == <<c>> \o DotRs

\* a: 10/10, b: 2/10, c: 0/0
ScenarioA ==
    << [filename |-> FName("a"), covered |-> 10, total |-> 10],
       [filename |-> FName("b"), covered |-> 2,  total |-> 10],
       [filename |-> FName("c"), covered |-> 0,  total |-> 0] >>

\* the same project with b covered by the new tests
ScenarioAfter ==
    << [filename |-> FName("a"), covered |-> 10, total |-> 10],
       [filename |-> FName("b"), covered |-> 8,  total |-> 10],
       [filename |-> FName("c"), covered |-> 0,  total |-> 0] >>

\* a report with no eligible file: a test file, a build product and a file
\* without lines
ScenarioFiltered ==
    << [filename |-> <<"a">> \o TestRs, covered |-> 1, total |-> 2],
       [filename |-> TargetDir \o FName("a"), covered |-> 1, total |-> 2],
       [filename |-> FName("c"), covered |-> 0, total |-> 0] >>

\* a report that no longer lists b
ScenarioRenamed ==
    << [filename |-> FName("a"), covered |-> 10, total |-> 10] >>

InitProcesses ==
    /\ apc = "idle" /\ aexit = -1
    /\ analysisFile = NoFile
    /\ overallFile = NoFile
    /\ gpc = "idle" /\ gexit = -1
    /\ candFile = NoFile
    /\ apiCalls = 0
    /\ rpc = "idle" /\ rexit = -1
    /\ reportFile = NoFile
    /\ statsFile = NoFile
    /\ measured = "no"
    /\ warned = FALSE
    /\ vpc = "idle" /\ vexit = -1
    /\ attempt = 0
    /\ success = FALSE
    /\ ret = FALSE
    /\ outcome = "none"
    /\ results = <<>>
    /\ workFile = "orig"
    /\ backupFile = "none"
    /\ metadata = NoFile
    /\ metaFile = NoFile
    /\ oracleLog = <<>>
    /\ uncaught = "none"

InitTexts ==
    /\ generated_content = <<>>
    /\ updated_content = <<>>
    /\ tpc = "start"

\* The pipeline on the scenario reports
Init ==
    /\ coverage_data \in {ScenarioA, ScenarioFiltered, <<>>}
    /\ after_data \in {ScenarioA, ScenarioAfter, ScenarioRenamed}
    /\ InitProcesses
    /\ response = <<>>
    /\ original_content = <<>>
    /\ InitTexts

AnalyzerNext == AnalyzerOracleFails \/ AnalyzerNoFiles \/ AnalyzerMain

GeneratorNext ==
    GeneratorNoAnalysis \/ GeneratorAborts \/ GeneratorApiFails \/ GeneratorMain

ValidatorNext ==
    \/ VNoMetadata \/ VLoadMetadata \/ VBackup \/ VBackupFails \/ VStage
    \/ VStageFails \/ VCheck \/ VTest \/ VRestore \/ VCleanup \/ VDriver
    \/ VApply \/ VRecordSuccess \/ VRecordFailure

ReportNext == ReportNoMetadata \/ ReportOracleFails \/ ReportMain

Next == AnalyzerNext \/ GeneratorNext \/ ValidatorNext \/ ReportNext

Spec == Init /\ [][Next]_vars

\* The pipeline with a Validator that keeps running once started: its code
\* is sequential and each oracle call returns or is ended by its timeout
LiveSpec == Init /\ [][Next]_vars /\ WF_vars(ValidatorNext)

\* The Analyzer, the Generator and the Report stage on every coverage report
\* within the bounds, the tree left as measured
CovInit ==
    /\ coverage_data \in Reports
    /\ after_data = coverage_data
    /\ InitProcesses
    /\ response = <<>>
    /\ original_content = <<>>
    /\ InitTexts

CovNext == AnalyzerNoFiles \/ AnalyzerMain \/ GeneratorMain \/ ReportMain

CovSpec == CovInit /\ [][CovNext]_vars

\* The same stages on every report of one file name within the bounds of
\* the reordering
PermInit ==
    /\ coverage_data \in PermReports
    /\ after_data = coverage_data
    /\ InitProcesses
    /\ response = <<>>
    /\ original_content = <<>>
    /\ InitTexts

PermSpec == PermInit /\ [][CovNext]_vars

\* The text functions of the Generator on every response within the bounds
\* with the sample file, and on the sample responses with every file within
\* the bounds
TextInit ==
    /\ \/ response \in Responses /\ original_content = SampleOriginal
       \/ response \in SampleResponses /\ original_content \in Originals
    /\ InitTexts
    /\ coverage_data = ScenarioA
    /\ after_data = ScenarioA
    /\ InitProcesses

TextNext == ExtractCode \/ IntegrateTests

TextSpec == TextInit /\ [][TextNext]_vars

----------------------------------------------------------------------------
(* Properties of the Validator *)

AllFailed == \A i \in 1..Len(results) : ~results[i]

LastSucceeded == Len(results) > 0 /\ results[Len(results)]

\* C1: whenever validate_tests() has returned, and when the Validator has
\* exited, the working file holds the original or the candidate, nothing else.
C1_AllOrNothing ==
    vpc \in {"returned", "apply", "record", "exhausted", "exited"}
        => workFile \in {"orig", "cand"}

\* an attempt whose staging copy broke off half-way has completed
C1_Witness ==
    /\ vpc = "returned"
    /\ outcome = "error"
    /\ Len(results) = 1
    /\ workFile = "orig"

\* C2: when three calls of validate_tests() have returned False, the
\* Validator exits non-zero with validation_success false and
\* validation_attempts 3 in the metadata file and the working file original.
C2_ExhaustedRecordsFailure ==
    (vpc = "exited" /\ Len(results) = 3 /\ AllFailed)
        => /\ metaFile.validation_success = "false"
           /\ metaFile.validation_attempts = 3
           /\ workFile = "orig"
           /\ vexit > 0

C2_Witness ==
    /\ vpc = "exited"
    /\ Len(results) = 3
    /\ AllFailed
    /\ outcome = "compile_failed"

\* C3: a call of validate_tests() that returns True is the last one; the
\* Validator then records validation_success true with validation_attempts
\* the number of that attempt, leaves the candidate in the working file and
\* exits with status 0.
C3_FirstSuccessStops ==
    /\ \A i \in 1..(Len(results) - 1) : ~results[i]
    /\ LastSucceeded
           => /\ vpc \in {"returned", "apply", "record", "exited"}
              /\ attempt = Len(results)
    /\ (vpc = "exited" /\ LastSucceeded)
           => /\ metaFile.validation_success = "true"
              /\ metaFile.validation_attempts = Len(results)
              /\ workFile = "cand"
              /\ vexit = 0

\* attempts 1 and 2 failed, attempt 3 passed, the Validator has exited
C3_Witness ==
    /\ vpc = "exited"
    /\ results = <<FALSE, FALSE, TRUE>>

\* C4: the driver makes at most 3 attempts and a recorded validation_attempts
\* lies in 1..3.
C4_RetryBound ==
    /\ attempt <= 3
    /\ Len(results) <= 3
    /\ (metaFile.exists /\ metaFile.validation_success # "unset")
           => metaFile.validation_attempts \in 1..3
    /\ (metadata.exists /\ metadata.validation_success # "unset")
           => metadata.validation_attempts \in 1..3

\* the third attempt is running
C4_Witness ==
    /\ attempt = 3
    /\ vpc = "test"
    /\ Len(results) = 2

\* C5: after a call of validate_tests() that returned False, whatever the
\* path (compile failure, test failure, timeout, exception), the working file
\* holds the original when the driver regains control, starts the next attempt
\* or records the failure.
C5_RollbackOnFailure ==
    ((vpc \in {"returned", "exhausted"} /\ ~ret) \/ (vpc = "backup" /\ attempt > 1))
        => workFile = "orig"

\* the test run timed out and the call has returned
C5_Witness ==
    /\ vpc = "returned"
    /\ ~ret
    /\ outcome = "timeout"
    /\ attempt = 2

\* C6: in an attempt whose compile check and test run both pass, the working
\* file holds the candidate from staging until success is recorded.
C6_KeptInPlace ==
    (outcome = "passed" /\ vpc \in {"finally", "cleanup", "returned", "apply", "record"})
        => workFile = "cand"

\* C7: a report or statistics file exists only if the metadata file records
\* validation_success true.
C7_ReportOnlyOnSuccess ==
    ((reportFile.exists \/ statsFile.exists) /\ vpc = "exited")
        => (metaFile.exists /\ metaFile.validation_success = "true")

----------------------------------------------------------------------------
(* Properties of the coverage statistics *)

\* The selection on Scenario A
ScenarioASelected == find_least_covered_file(extract_file_coverage(ScenarioA))

\* C8: the Analyzer's selection is an entry of the filtered statistics with
\* no entry below it and every entry before it strictly above it; on
\* Scenario A it is b.
C8_SelectsFirstMinimum ==
    /\ analysisFile.exists =>
           LET fs == extract_file_coverage(coverage_data)
           IN  \E i \in 1..Len(fs) :
                   /\ analysisFile.file = fs[i][1]
                   /\ analysisFile.stats = fs[i][3]
                   /\ \A j \in 1..Len(fs) : ~FLess(fs[j][2], fs[i][2])
                   /\ \A j \in 1..(i - 1) : FLess(fs[i][2], fs[j][2])
    /\ ScenarioASelected[1] = FName("b")

\* two different files tie for the minimum and one has been selected
C8_Witness ==
    /\ analysisFile.exists
    /\ LET fs == extract_file_coverage(coverage_data)
       IN  /\ Len(fs) = 2
           /\ fs[1][2] = fs[2][2]
           /\ fs[1][1] # fs[2][1]

IsSource(name) == EndsWith(name, DotRs)
IsBuildOrCache(name) == Contains(name, TargetDir) \/ Contains(name, CargoDir)
IsTestOnly(name) == Contains(name, TestsDir) \/ EndsWith(name, TestRs)

Eligible(e) ==
    /\ IsSource(e.filename)
    /\ ~IsBuildOrCache(e.filename)
    /\ ~IsTestOnly(e.filename)
    /\ e.total > 0

\* C9: the extracted statistics are the eligible entries of the report with
\* total > 0, in the report's order, each with its percentage and counters;
\* no entry with total 0 is among them.
C9_ExtractIsFilteredSubsequence ==
    LET fs  == extract_file_coverage(coverage_data)
        sel == SelectSeq(coverage_data, Eligible)
    IN  /\ Len(fs) = Len(sel)
        /\ \A i \in 1..Len(fs) :
               /\ fs[i][1] = sel[i].filename
               /\ fs[i][2] = Pct(sel[i].covered, sel[i].total)
               /\ fs[i][3].covered = sel[i].covered
               /\ fs[i][3].total = sel[i].total
               /\ fs[i][3].total > 0

\* the Analyzer has run on a report with a test file, kept one entry of two
C9_Witness ==
    /\ apc = "exited"
    /\ Len(coverage_data) = 2
    /\ Len(extract_file_coverage(coverage_data)) = 1
    /\ \E i \in 1..2 : EndsWith(coverage_data[i].filename, TestRs)
                           /\ coverage_data[i].total > 0

----------------------------------------------------------------------------
(* Properties of the stages' preconditions *)

\* C11: a stage that finds its predecessor file absent exits non-zero with no
\* side effect: the Generator without the analysis file sends no request and
\* writes neither candidate nor metadata; the Validator without the metadata
\* file makes no backup, leaves the working file as it was and runs no
\* oracle; the Report stage without the metadata file measures nothing and
\* writes neither report nor statistics.
C11_AbsentPredecessorAborts ==
    /\ (gpc = "exited" /\ ~analysisFile.exists) =>
           /\ gexit = 1
           /\ apiCalls = 0
           /\ ~candFile.exists
           /\ ~metaFile.exists
    /\ (vpc = "exited" /\ ~metaFile.exists) =>
           /\ vexit = 1
           /\ backupFile = "none"
           /\ workFile = "orig"
           /\ oracleLog = <<>>
           /\ attempt = 0
    /\ (rpc = "exited" /\ ~metaFile.exists) =>
           /\ rexit = 1
           /\ measured = "no"
           /\ ~reportFile.exists
           /\ ~statsFile.exists

C11_Witness ==
    /\ gpc = "exited" /\ ~analysisFile.exists
    /\ vpc = "exited" /\ rpc = "exited"
    /\ ~metaFile.exists
    /\ gexit = 1 /\ vexit = 1 /\ rexit = 1

----------------------------------------------------------------------------
(* Properties of the text functions of the Generator *)

\* Positions (from 0) just past an opening fence with its language tag
TagEnds ==
    { p \in Len(FenceRust)..Len(response) :
          SubSeq(response, p - Len(FenceRust) + 1, p) = FenceRust }

\* Positions (from 0) at or after p where a fence starts
FencesFrom(p) ==
    { q \in p..(Len(response) - Len(Fence)) :
          SubSeq(response, q + 1, q + Len(Fence)) = Fence }

\* t is s without its leading and trailing whitespace
IsTrimOf(t, s) ==
    \E i \in 1..(Len(s) + 1) : \E j \in 0..Len(s) :
        /\ t = SubSeq(s, i, j)
        /\ \A k \in 1..(i - 1) : s[k] \in Whitespace
        /\ \A k \in (j + 1)..Len(s) : s[k] \in Whitespace
        /\ t # <<>> => (t[1] \notin Whitespace /\ t[Len(t)] \notin Whitespace)

\* C12 as stated: with a tagged fenced block in the response the result is
\* the exact text between the end of the first opening tag and the next
\* fence; without one it is the response.
C12_ExactSubstring ==
    tpc # "start" =>
        IF TagEnds # {} /\ FencesFrom(Min(TagEnds)) # {}
            THEN generated_content =
                     SubSeq(response, Min(TagEnds) + 1, Min(FencesFrom(Min(TagEnds))))
        ELSE generated_content = response

\* C12: when the next fence starts strictly after the end of the first
\* opening tag, the result is the text between the two without its leading
\* and trailing whitespace; in every other case (no opening tag, no later
\* fence, or the fence directly at the end of the tag) it is the response,
\* unchanged.
C12_ExtractCode ==
    tpc # "start" =>
        IF TagEnds # {} /\ FencesFrom(Min(TagEnds) + 1) # {}
               /\ Min(TagEnds) \notin FencesFrom(Min(TagEnds))
            THEN IsTrimOf(generated_content,
                          SubSeq(response, Min(TagEnds) + 1,
                                 Min(FencesFrom(Min(TagEnds)))))
        ELSE generated_content = response

C12_Witness ==
    /\ tpc = "extracted"
    /\ response = ScenarioB
    /\ generated_content = <<"x">>

\* The lines of the original text
OriginalLines == split_lines(original_content)

\* Index (from 0) of the first line holding the test-module marker
FirstMarkerLine ==
    Min({ i \in 0..(Len(OriginalLines) - 1) : Contains(OriginalLines[i + 1], Marker) })

\* The first line from index i on at which the balance, count before it,
\* is back at zero and which holds a closing brace; -1 when there is none
RECURSIVE BlockEndFrom(_, _, _)
BlockEndFrom(lines, i, count) ==
    IF i >= Len(lines) THEN -1
    ELSE LET c == count + Count(lines[i + 1], "{") - Count(lines[i + 1], "}")
         IN  IF c = 0 /\ Contains(lines[i + 1], <<"}">>) THEN i
             ELSE BlockEndFrom(lines, i + 1, c)

\* The line closing the test module when the balance is tracked from the
\* marker line itself; -1 when the balance never returns to zero
MarkedBlockEnd ==
    BlockEndFrom(OriginalLines, FirstMarkerLine + 1,
                 Count(OriginalLines[FirstMarkerLine + 1], "{")
                     - Count(OriginalLines[FirstMarkerLine + 1], "}"))

\* C13 as stated: when the original holds a brace-balanced test-module block,
\* the result has the opening and the closing braces of the original plus
\* those of the generated code, and no other.
C13_SpliceConservesBraces ==
    (/\ tpc = "integrated"
     /\ Contains(original_content, Marker)
     /\ MarkedBlockEnd >= 0) =>
        /\ Count(updated_content, "{") =
               Count(original_content, "{") + Count(generated_content, "{")
        /\ Count(updated_content, "}") =
               Count(original_content, "}") + Count(generated_content, "}")

\* C19 as stated: with a marker in the original, the balance tracked from the
\* marker line itself, the result is the original lines in their order with
\* an empty line and the generated code put immediately before the first
\* later line at which the balance is zero and which holds a closing brace.
C19_InsertBeforeBlockEnd ==
    (/\ tpc = "integrated"
     /\ Contains(original_content, Marker)
     /\ MarkedBlockEnd >= 0) =>
        updated_content =
            join_lines(SubSeq(OriginalLines, 1, MarkedBlockEnd)
                       \o << <<>>, generated_content >>
                       \o SubSeq(OriginalLines, MarkedBlockEnd + 1, Len(OriginalLines)))

\* C20 as stated: with a marker in the original whose balance never returns
\* to zero, the generated code is appended without the synthesized
\* test-module declaration; the declaration is added only when the original
\* holds no marker.
C20_NoWrapperWithMarker ==
    (/\ tpc = "integrated"
     /\ Contains(original_content, Marker)
     /\ MarkedBlockEnd = -1) =>
        updated_content #
            original_content \o WrapperHead \o generated_content \o WrapperTail

----------------------------------------------------------------------------
(* Properties of the overall average *)

\* The reorderings of a sequence
Reorderings(s) ==
    { [i \in 1..Len(s) |-> s[f[i]]] : f \in Permutations(1..Len(s)) }

\* The entries of a report that pass the filter, in their order
RECURSIVE EligibleOf(_)
EligibleOf(files) ==
    IF files = <<>> THEN <<>>
    ELSE (IF Eligible(Head(files)) THEN <<Head(files)>> ELSE <<>>)
             \o EligibleOf(Tail(files))

RECURSIVE GCD(_, _)
GCD(a, b) == IF b = 0 THEN a ELSE GCD(b, a % b)

\* Least common multiple of the line totals of the entries
RECURSIVE LcmTotals(_)
LcmTotals(es) ==
    IF es = <<>> THEN 1
    ELSE LET l == LcmTotals(Tail(es))
         IN  (l * Head(es).total) \div GCD(l, Head(es).total)

\* l times the exact sum of the percentages of the entries
RECURSIVE ExactSum(_, _)
ExactSum(es, l) ==
    IF es = <<>> THEN 0
    ELSE 100 * Head(es).covered * (l \div Head(es).total) + ExactSum(Tail(es), l)

\* The float avg is within (n + 2) * 2^-46 of the exact unweighted mean of
\* the percentages of the n entries es
NearMean(avg, es) ==
    LET n   == Len(es)
        l   == LcmTotals(es)
        lhs == MMulInt(avg[2], l * n)
        rhs == MNorm(0, 0, ExactSum(es, l) * 2^12)
        tol == MNorm((n + 2) * 2^14 * l * n, 0, 0)
    IN  /\ avg[1] = 1
        /\ ~MLess(MAdd(rhs, tol), lhs)
        /\ ~MLess(MAdd(lhs, tol), rhs)

\* The average the Analyzer computes on a report
AnalyzerAverage(files) == overall_stats(extract_file_coverage(files)).average_coverage

\* The average the Report stage computes on a report
ReportAverage(files) == calculate_overall_coverage(files).average_coverage

\* C14 as stated: the overall average is the unweighted mean of the
\* percentages of the filtered entries and is the same for every reordering
\* of the report.
C14_SameForEveryOrder ==
    /\ overallFile.exists =>
           /\ NearMean(overallFile.average_coverage, EligibleOf(coverage_data))
           /\ \A p \in Reorderings(coverage_data) :
                  AnalyzerAverage(p) = overallFile.average_coverage
    /\ statsFile.exists =>
           /\ NearMean(statsFile.after.overall.average_coverage, EligibleOf(after_data))
           /\ \A p \in Reorderings(after_data) :
                  ReportAverage(p) = statsFile.after.overall.average_coverage

\* C14: the overall average is the unweighted mean of the percentages of the
\* n filtered entries up to the rounding of the float operations, within
\* (n + 2) * 2^-46, and not weighted by line count; it is the same for every
\* reordering of the report when at most two entries pass the filter.
C14_UnweightedMean ==
    /\ overallFile.exists =>
           /\ NearMean(overallFile.average_coverage, EligibleOf(coverage_data))
           /\ Len(EligibleOf(coverage_data)) <= 2 =>
                  \A p \in Reorderings(coverage_data) :
                      AnalyzerAverage(p) = overallFile.average_coverage
    /\ statsFile.exists =>
           /\ NearMean(statsFile.after.overall.average_coverage, EligibleOf(after_data))
           /\ Len(EligibleOf(after_data)) <= 2 =>
                  \A p \in Reorderings(after_data) :
                      ReportAverage(p) = statsFile.after.overall.average_coverage

\* both stages ran on three filtered entries of different sizes, and another
\* order of the report gives another average
C14_Witness ==
    /\ overallFile.exists
    /\ statsFile.exists
    /\ overallFile.total_files = 3
    /\ \E i, j \in 1..Len(coverage_data) :
           coverage_data[i].total > coverage_data[j].total /\ coverage_data[j].total > 0
    /\ \E p \in Reorderings(after_data) :
           ReportAverage(p) # statsFile.after.overall.average_coverage

----------------------------------------------------------------------------
(* Properties of the Report stage *)

\* C15: when the coverage measured after validation has no entry with lines
\* for the target file, the Report stage exits zero, has written the report
\* and the statistics with the before-snapshot as the after value, so that
\* the improvements of the file are zero, and has printed its warning.
C15_FallbackToBefore ==
    (/\ rpc = "exited"
     /\ measured = "ok"
     /\ ~get_file_coverage_from_data(after_data, metaFile.original_file).exists) =>
        /\ rexit = 0
        /\ reportFile.exists
        /\ statsFile.exists
        /\ statsFile.after.file = statsFile.before.file
        /\ statsFile.after.file = analysisFile.stats
        /\ statsFile.improvements.file_coverage = FZero
        /\ statsFile.improvements.lines_covered = 0
        /\ reportFile.file_improvement = FZero
        /\ reportFile.lines_improvement = 0
        /\ warned

\* the report after validation no longer lists the target, which had lines
\* covered before
C15_Witness ==
    /\ rpc = "exited"
    /\ measured = "ok"
    /\ after_data = ScenarioRenamed
    /\ metaFile.original_file = FName("b")
    /\ analysisFile.stats.covered > 0
    /\ warned
    /\ rexit = 0

----------------------------------------------------------------------------
(* Properties of the Validator's attempts *)

\* The oracle invocations of attempt n
InvocationsOf(n) == SelectSeq(oracleLog, LAMBDA e : e.attempt = n)

\* C16: while an attempt holds the working file overwritten, the backup holds
\* the original; and when the backup copy has failed, the working file is
\* the original, no oracle was run in that attempt, the attempt is the last
\* one and the run has ended with exit status 1.
C16_SnapshotFailureIsFatal ==
    /\ (vpc \in {"check", "test", "finally"} /\ workFile # "orig") => backupFile = "orig"
    /\ uncaught = "backup" =>
           /\ workFile = "orig"
           /\ InvocationsOf(attempt) = <<>>
           /\ Len(results) = attempt - 1
           /\ vpc = "exited"
           /\ vexit = 1

\* the backup copy failed in the second attempt
C16_Witness ==
    /\ uncaught = "backup"
    /\ attempt = 2
    /\ InvocationsOf(1) # <<>>
    /\ vpc = "exited"

C18_OracleOrder ==
    /\ vpc \in {"check", "test"} => (workFile = "cand" /\ backupFile = "orig")
    /\ \A k \in 1..Len(oracleLog) :
           /\ oracleLog[k].oracle = "check" =>
                  (k = 1 \/ oracleLog[k - 1].attempt < oracleLog[k].attempt)
           /\ oracleLog[k].oracle = "test" =>
                  /\ k > 1
                  /\ oracleLog[k - 1].attempt = oracleLog[k].attempt
                  /\ oracleLog[k - 1].oracle = "check"
                  /\ oracleLog[k - 1].result = "pass"
    /\ \A n \in 1..MaxAttempts :
           (InvocationsOf(n) # <<>> /\ InvocationsOf(n)[1].result # "pass")
               => Len(InvocationsOf(n)) = 1

\* the compile check timed out in the first attempt, failed in the second
\* and passed in the third, which ran the tests
C18_Witness ==
    /\ Len(oracleLog) = 4
    /\ oracleLog[1] = [attempt |-> 1, oracle |-> "check", result |-> "timeout"]
    /\ oracleLog[2] = [attempt |-> 2, oracle |-> "check", result |-> "fail"]
    /\ oracleLog[3] = [attempt |-> 3, oracle |-> "check", result |-> "pass"]
    /\ oracleLog[4].oracle = "test"

\* A step of the Validator
ValidatorStep == vpc' # vpc

\* C21: a step of the Validator leaves the candidate file as it is and sends
\* no request for another candidate; every staging copies that candidate;
\* and the metadata file keeps the original path, the candidate path and
\* the coverage before as the Generator wrote them, also once the Validator
\* has added its verdict.
C21_SameCandidate ==
    /\ [][ValidatorStep =>
              /\ candFile' = candFile
              /\ apiCalls' = apiCalls
              /\ gpc' = gpc
              /\ metaFile.exists =>
                     /\ metaFile'.exists
                     /\ metaFile'.original_file = metaFile.original_file
                     /\ metaFile'.generated_tests_path = metaFile.generated_tests_path
                     /\ metaFile'.coverage_before = metaFile.coverage_before]_vars
    /\ [](vpc \in {"check", "test"} => (candFile.exists /\ workFile = candFile.content))
    /\ [](metaFile.exists =>
              /\ metaFile.original_file = generator_metadata(analysisFile).original_file
              /\ metaFile.generated_tests_path =
                     generator_metadata(analysisFile).generated_tests_path
              /\ metaFile.coverage_before = generator_metadata(analysisFile).coverage_before)

\* the third attempt has staged the candidate of the single request, and
\* later the failure has been recorded
C21_Witness ==
    /\ vpc = "exited"
    /\ Len(results) = MaxAttempts
    /\ AllFailed
    /\ apiCalls = 1
    /\ candFile.exists
    /\ metaFile.validation_success = "false"
    /\ metaFile.original_file = FName("b")

\* The report holds no eligible entry
NoEligible == \A i \in 1..Len(coverage_data) : ~Eligible(coverage_data[i])

\* C22: when no entry of the report is eligible, the Analyzer exits with 1
\* and writes neither the selection nor the snapshot; every later stage that
\* runs afterwards exits with 1 as well, no request is sent, no candidate,
\* metadata or report is written and the working file is never touched.
C22_EmptySelectionAborts ==
    (apc = "exited" /\ NoEligible) =>
        /\ aexit = 1
        /\ ~analysisFile.exists
        /\ ~overallFile.exists
        /\ gpc \in {"idle", "exited"}
        /\ (gpc = "exited" => gexit = 1)
        /\ apiCalls = 0
        /\ ~candFile.exists
        /\ ~metaFile.exists
        /\ vpc \in {"idle", "exited"}
        /\ (vpc = "exited" => vexit = 1)
        /\ workFile = "orig"
        /\ backupFile = "none"
        /\ (rpc = "exited" => rexit = 1)
        /\ ~reportFile.exists
        /\ ~statsFile.exists

C22_Witness ==
    /\ apc = "exited"
    /\ coverage_data = ScenarioFiltered
    /\ NoEligible
    /\ aexit = 1
    /\ gpc = "exited"
    /\ vpc = "exited"
    /\ rpc = "exited"

\* C23: each attempt begins with the working file holding the original
\* content and no backup present; the backup that exists during an attempt
\* is a copy of the original, never of the candidate; and once the attempt
\* has returned the backup is gone, for the rest of the run.
C23_AttemptsStartFromOriginal ==
    /\ vpc = "backup" =>
           /\ attempt \in 1..MaxAttempts
           /\ workFile = "orig"
           /\ backupFile = "none"
    /\ vpc \in {"stage", "check", "test", "finally", "cleanup"} => backupFile = "orig"
    /\ backupFile # "cand"
    /\ vpc \in {"returned", "apply", "record", "exhausted"} => backupFile = "none"
    /\ (vpc = "exited" /\ uncaught = "none") => backupFile = "none"

C23_Witness ==
    /\ vpc = "stage"
    /\ attempt = MaxAttempts
    /\ results = <<FALSE, FALSE>>
    /\ backupFile = "orig"
    /\ workFile = "orig"
    /\ \E i \in 1..Len(oracleLog) : oracleLog[i].oracle = "test"

\* C24: a Validator that has loaded its metadata eventually exits, with
\* status 0 or 1, and stays exited; on the way it makes at most MaxAttempts
\* attempts and at most two oracle calls in each.
C24_ValidatorTerminates ==
    /\ [](attempt <= MaxAttempts /\ Len(oracleLog) <= 2 * MaxAttempts)
    /\ [](vpc = "exited" => vexit \in {0, 1})
    /\ [][vpc = "exited" => vpc' = "exited"]_vars
    /\ (vpc \notin {"idle", "exited"}) ~> (vpc = "exited")

C24_Witness ==
    /\ vpc = "exited"
    /\ vexit = 1
    /\ metadata.exists
    /\ Len(oracleLog) = 2 * MaxAttempts
    /\ \E i \in 1..Len(oracleLog) : oracleLog[i].result = "timeout"

====
